---- MODULE Spec2Model ----
(***************************************************************************)
(* A model of milli's facet level index traversals (descending facet sort, *)
(* facet distribution) and of the grenad bulk-load helpers that write a    *)
(* sorted stream into an LMDB database.                                    *)
(***************************************************************************)
EXTENDS Integers, Sequences, FiniteSets, TLC

(***************************************************************************)
(* Bounds of the model.                                                    *)
(***************************************************************************)
\* Number of distinct facet values (left bounds 0..NumVals-1) a field may hold.
NumVals == 3
\* Number of document ids (0..NumDocs-1).
NumDocs == 3
\* The callback stops the distribution at its stopAt-th invocation, stopAt <= MaxStop.
MaxStop == 2
\* A stored bitmap is a set of the bits 0..NumBits-1.
NumBits == 1
\* Number of pairs inserted in the sorter of a bulk load.
MaxPairs == 3
\* Number of records of the reader that is split into chunks.
MaxRecords == 3
\* Greatest length, in bytes, of the obkv of a record.
MaxObkvLen == 2
\* Greatest chunk size threshold, in bytes.
MaxChunkSize == 12
\* Greatest length, in bytes, of the message of a JSON error.
MaxMsgLen == 140
\* Number of distinct scalar values of a JSON document.
NumScalars == 2

Vals == 0..(NumVals - 1)
Docs == 0..(NumDocs - 1)

\* The field the traversals are run on; fields 0 and 2 are its neighbours.
TargetField == 1
\* usize::MAX, the take() limit of the scan of the highest level.
UsizeMax == 2147483647

NoVal == -1

(***************************************************************************)
(* Small helpers on sets and sequences.                                    *)
(***************************************************************************)
SetMax(S) == CHOOSE x \in S : \A y \in S : y <= x
SetMin(S) == CHOOSE x \in S : \A y \in S : x <= y


(***************************************************************************)
(* FacetGroupKey { field_id, level, left_bound } is the tuple              *)
(* <<field_id, level, left_bound>>, ordered lexicographically as its       *)
(* encoded bytes are.  An entry of the database is a record                *)
(* [key, size, bitmap] (FacetGroupValue { size, bitmap }).                 *)
(***************************************************************************)
KeyLess(a, b) ==
    \/ a[1] < b[1]
    \/ a[1] = b[1] /\ a[2] < b[2]
    \/ a[1] = b[1] /\ a[2] = b[2] /\ a[3] < b[3]

KeyLeq(a, b) == a = b \/ KeyLess(a, b)

Included(k) == [kind |-> "Included", at |-> k]
Excluded(k) == [kind |-> "Excluded", at |-> k]
Unbounded == [kind |-> "Unbounded", at |-> NoVal]

\* Whether key k lies above the lower bound lb / below the upper bound ub of a range.
AboveLower(k, lb) ==
    CASE lb.kind = "Included" -> KeyLeq(lb.at, k)
      [] lb.kind = "Excluded" -> KeyLess(lb.at, k)
      [] OTHER -> TRUE

BelowUpper(k, ub) ==
    CASE ub.kind = "Included" -> KeyLeq(k, ub.at)
      [] ub.kind = "Excluded" -> KeyLess(k, ub.at)
      [] OTHER -> TRUE

InRange(d, lb, ub) == {e \in d : AboveLower(e.key, lb) /\ BelowUpper(e.key, ub)}

MaxEntry(S) == CHOOSE e \in S : \A o \in S : KeyLeq(o.key, e.key)
MinEntry(S) == CHOOSE e \in S : \A o \in S : KeyLeq(e.key, o.key)

(***************************************************************************)
(* The facet level index of one field: level 0 holds one entry per facet   *)
(* value; every entry of level L+1 groups `size` consecutive entries of    *)
(* level L, takes the left bound of the first and the union of their       *)
(* bitmaps, and each level is strictly smaller than the one below.         *)
(***************************************************************************)
Group(seq) ==
    [left |-> seq[1].left, size |-> Len(seq),
     bitmap |-> UNION {seq[i].bitmap : i \in 1..Len(seq)}]

RECURSIVE Groupings(_)
Groupings(seq) ==
    IF seq = <<>> THEN {<<>>}
    ELSE UNION {
           {<<Group(SubSeq(seq, 1, n))>> \o rest :
               rest \in Groupings(SubSeq(seq, n + 1, Len(seq)))} :
           n \in 1..Len(seq)}

LevelEntries(f, level, seq) ==
    {[key |-> <<f, level, seq[i].left>>, size |-> seq[i].size, bitmap |-> seq[i].bitmap] :
        i \in 1..Len(seq)}

RECURSIVE Hierarchies(_, _, _)
Hierarchies(f, level, seq) ==
    {LevelEntries(f, level, seq)}
    \cup UNION {
           {LevelEntries(f, level, seq) \cup up : up \in Hierarchies(f, level + 1, g)} :
           g \in {h \in Groupings(seq) : Len(h) < Len(seq)}}

\* The level-0 sequence of a map from the values present to their bitmaps.
RECURSIVE Level0Seq(_, _)
Level0Seq(m, vs) ==
    IF vs = {} THEN <<>>
    ELSE LET v == SetMin(vs)
         IN  <<[left |-> v, size |-> 1, bitmap |-> m[v]]>> \o Level0Seq(m, vs \ {v})

Level0Maps == UNION {[vs -> (SUBSET Docs) \ {{}}] : vs \in SUBSET Vals}

FieldIndexes(f) ==
    UNION {IF DOMAIN m = {} THEN {{}}
           ELSE Hierarchies(f, 0, Level0Seq(m, DOMAIN m)) : m \in Level0Maps}

\* What the neighbouring fields hold, when they hold anything.
ForeignEntries ==
    {[key |-> <<0, 0, 0>>, size |-> 1, bitmap |-> {0}],
     [key |-> <<2, 0, 0>>, size |-> 1, bitmap |-> Docs],
     [key |-> <<2, 1, 0>>, size |-> 1, bitmap |-> Docs]}

(***************************************************************************)
(* Read path primitives of the index.                                      *)
(***************************************************************************)
FieldEntries(d, f) == {e \in d : e.key[1] = f}

get_highest_level(d, f) ==
    IF FieldEntries(d, f) = {} THEN 0
    ELSE SetMax({e.key[2] : e \in FieldEntries(d, f)})

Level0Of(d, f) == {e \in d : e.key[1] = f /\ e.key[2] = 0}

get_first_facet_value(d, f) ==
    IF Level0Of(d, f) = {} THEN NoVal ELSE SetMin({e.key[3] : e \in Level0Of(d, f)})

get_last_facet_value(d, f) ==
    IF Level0Of(d, f) = {} THEN NoVal ELSE SetMax({e.key[3] : e \in Level0Of(d, f)})

VARIABLES
    db,          \* the facet database, read through one read transaction
    candidates,  \* the candidate set handed to the traversal
    readError,   \* whether the store has answered a read of the traversal with an error
    stack,       \* DescendingFacetSort.stack
    sortPc,      \* "idle" between calls of next, "run" inside one, "done" after None
    out,         \* what next has yielded so far: [bitmap, left]
    dstack,      \* the activations of FacetDistribution::iterate, innermost last
    distPc,      \* "start" before the call, "run" inside iterate, "done" after the return
    calls,       \* the arguments of each invocation of the callback, in order
    stopAt,      \* the callback answers Break on its stopAt-th invocation (0: never)
    reads,       \* number of entries read from the database by the traversal
    stopped,     \* whether the callback has answered Break
    seen,        \* the keys of the entries the distribution has read, in order
    store,       \* the committed content of the LMDB database, what readers see
    store0,      \* the content of the database before the load
    wtxn,        \* the content seen and written through the write transaction
    txn,         \* "open", "committed" or "aborted"
    stream,      \* the sorted records handed to the store writer
    pos,         \* the index in stream of the next record of the cursor
    loadPc,      \* "load" inside the writer, "ok" / "err" after it has returned
    loadErr,     \* the error the writer returned, "none" when none
    mergeKind,   \* the MergeFn of the load
    writer,      \* which writer runs: "reader" or "merger_iter"
    loads,       \* how many times the stream has been handed to the writer
    after1,      \* the content left by the first load
    pairs,       \* the pairs inserted in the sorter, in insertion order
    fed,         \* how many of them have been inserted
    entries,     \* the in-memory buffer of the sorter
    chunks,      \* the chunks the sorter has spilled, oldest first
    sorter,      \* the thresholds of the sorter, as create_sorter sets them
    spills,      \* how many times the buffer was flushed by an insertion
    obkv_reader, \* the records of the reader handed to grenad_obkv_into_chunks
    cursor,      \* how many of them the cursor has moved over
    continue_reading,      \* the flag of the same name
    documents_chunk_size,  \* the size threshold of a chunk, in bytes
    emitted,     \* the chunks the iterator has returned, in order
    lastItem,    \* what the last call of the iterator returned: "Some" or "None"
    serde_msg,   \* the message of the JSON error of a MalformedPayload, as bytes
    shown,       \* the message as Display writes it
    fmtPc,       \* "start" before Display::fmt, then "shown" or "panic"
    json,        \* the object handed to flatten
    flattened,   \* the object flatten returns
    flatPc       \* "start" before the call of flatten, "done" after it

facetVars == <<db, candidates, readError>>
sortVars == <<stack, sortPc, out>>
distVars == <<dstack, distPc, calls, stopAt, reads, stopped, seen>>
loadVars == <<store, store0, wtxn, txn, stream, pos, loadPc, loadErr, mergeKind,
              writer, loads, after1>>
pipeVars == <<pairs, fed, entries, chunks, sorter, spills>>
chunkVars == <<obkv_reader, cursor, continue_reading, documents_chunk_size, emitted,
               lastItem>>
fmtVars == <<serde_msg, shown, fmtPc>>
flatVars == <<json, flattened, flatPc>>
auxVars == <<chunkVars, fmtVars, flatVars>>
vars == <<facetVars, sortVars, distVars, loadVars, pipeVars, auxVars>>

FacetInit ==
    /\ db \in {idx \cup fo : idx \in FieldIndexes(TargetField), fo \in {{}, ForeignEntries}}
    /\ candidates \in SUBSET Docs
    /\ readError = FALSE

FacetParked == db = {} /\ candidates = {} /\ readError = FALSE

SortParked == stack = <<>> /\ sortPc = "off" /\ out = <<>>

DistParked ==
    /\ dstack = <<>> /\ distPc = "off" /\ calls = <<>>
    /\ stopAt = 0 /\ reads = 0 /\ stopped = FALSE /\ seen = <<>>

LoadParked ==
    /\ store = <<>> /\ store0 = <<>> /\ wtxn = <<>> /\ txn = "off"
    /\ stream = <<>> /\ pos = 0 /\ loadPc = "off" /\ loadErr = "none"
    /\ mergeKind = "off" /\ writer = "off" /\ loads = 0 /\ after1 = <<>>

PipeParked ==
    /\ pairs = <<>> /\ fed = 0 /\ entries = <<>> /\ chunks = <<>>
    /\ sorter = <<>> /\ spills = 0

ChunkParked ==
    /\ obkv_reader = <<>> /\ cursor = 0 /\ continue_reading = FALSE
    /\ documents_chunk_size = 0 /\ emitted = <<>> /\ lastItem = "off"

FmtParked == serde_msg = <<>> /\ shown = <<>> /\ fmtPc = "off"

FlatParked == json = <<>> /\ flattened = <<>> /\ flatPc = "off"

AuxParked == ChunkParked /\ FmtParked /\ FlatParked

(***************************************************************************)
(* Descending facet sort.                                                  *)
(***************************************************************************)
\* rev_range(..).take(n): a reverse cursor over [lower, upper] with `left` items to go.
RevRange(lb, ub, n) == [lower |-> lb, upper |-> ub, left |-> n]

\* The ascending order a `range` cursor would give in place of `rev_range`.
AscendingIterNext(d, it) ==
    LET S == InRange(d, it.lower, it.upper)
    IN  IF it.left = 0 \/ S = {} THEN [some |-> FALSE, entry |-> NoVal, iter |-> it]
        ELSE LET e == MinEntry(S)
             IN  [some |-> TRUE, entry |-> e,
                  iter |-> [it EXCEPT !.lower = Excluded(e.key), !.left = @ - 1]]

\* A cursor that gives its greatest entry again and again.
RevIterStuck(d, it) ==
    LET S == InRange(d, it.lower, it.upper)
    IN  IF it.left = 0 \/ S = {} THEN [some |-> FALSE, entry |-> NoVal, iter |-> it]
        ELSE [some |-> TRUE, entry |-> MaxEntry(S), iter |-> it]

\* deepest_iter.next(): the greatest entry left in the range, if any.
RevIterNext(d, it) ==
    LET S == InRange(d, it.lower, it.upper)
    IN  IF it.left = 0 \/ S = {} THEN [some |-> FALSE, entry |-> NoVal, iter |-> it]
        ELSE LET e == MaxEntry(S)
             IN  [some |-> TRUE, entry |-> e,
                  iter |-> [it EXCEPT !.upper = Excluded(e.key), !.left = @ - 1]]

KeepYielded(docs, bitmap) == docs
\* *documents_ids -= &bitmap
SubtractYielded(docs, bitmap) == docs \ bitmap

WholeGroup(bitmap, docs) == bitmap
\* bitmap &= docs
RestrictToDocs(bitmap, docs) == bitmap \cap docs

ChildTakeShort(group_size) == group_size - 1
\* .take(group_size as usize)
ChildTake(group_size) == group_size

\* end_key_kelow: the right bound of the frame, as a key of the level below.
EndKeyBelow(f, level, right) ==
    CASE right.kind = "Included" -> Included(<<f, level - 1, right.at>>)
      [] right.kind = "Excluded" -> Excluded(<<f, level - 1, right.at>>)
      [] OTHER -> Unbounded

InitialStackUnchecked(d, f, cands) ==
    <<[docs |-> cands,
       iter |-> RevRange(Included(<<f, get_highest_level(d, f), 0>>),
                         Included(<<f, get_highest_level(d, f), NumVals - 1>>), UsizeMax),
       right |-> Included(NumVals - 1)]>>
\* descending_facet_sort: the stack the iterator starts with.
InitialStack(d, f, cands) ==
    LET highest_level == get_highest_level(d, f)
        first_bound == get_first_facet_value(d, f)
        last_bound == get_last_facet_value(d, f)
    IN  IF first_bound # NoVal
        THEN <<[docs |-> cands,
                iter |-> RevRange(Included(<<f, highest_level, first_bound>>),
                                  Included(<<f, highest_level, last_bound>>), UsizeMax),
                right |-> Included(last_bound)]>>
        ELSE <<>>

Top == stack[Len(stack)]
Below == SubSeq(stack, 1, Len(stack) - 1)

SortInit ==
    /\ FacetInit
    /\ stack = InitialStack(db, TargetField, candidates)
    /\ sortPc = "idle"
    /\ out = <<>>
    /\ DistParked
    /\ LoadParked
    /\ PipeParked
    /\ AuxParked

\* The consumer pulls: next() is entered.
SortCall ==
    /\ sortPc = "idle"
    /\ sortPc' = "run"
    /\ UNCHANGED <<auxVars, facetVars, distVars, loadVars, pipeVars, stack, out>>

\* self.stack.last_mut()? on an empty stack: next returns None.
SortEnd ==
    /\ sortPc = "run"
    /\ stack = <<>>
    /\ sortPc' = "done"
    /\ UNCHANGED <<auxVars, facetVars, distVars, loadVars, pipeVars, stack, out>>

\* The while loop ends (the cursor of the top frame is exhausted): self.stack.pop().
SortPop ==
    /\ sortPc = "run"
    /\ stack # <<>>
    /\ ~RevIterNext(db, Top.iter).some
    /\ stack' = Below
    /\ UNCHANGED <<auxVars, facetVars, distVars, loadVars, pipeVars, sortPc, out>>

\* One turn of the while loop: one entry read from the cursor of the top frame.
SortRead ==
    /\ sortPc = "run"
    /\ stack # <<>>
    /\ RevIterNext(db, Top.iter).some
    /\ LET r == RevIterNext(db, Top.iter)
           e == r.entry
           level == e.key[2]
           left_bound == e.key[3]
           bitmap == RestrictToDocs(e.bitmap, Top.docs)
           read == [Top EXCEPT !.iter = r.iter]
       IN  IF e.key[1] # TargetField
           THEN \* return None
                /\ stack' = Below \o <<read>>
                /\ sortPc' = "done"
                /\ out' = out
           ELSE IF Top.docs = {}
           THEN \* break, then self.stack.pop()
                /\ stack' = Below
                /\ UNCHANGED <<sortPc, out>>
           ELSE IF bitmap # {}
           THEN IF level = 0
                THEN \* return Some(Ok(bitmap))
                     /\ stack' = Below \o
                            <<[read EXCEPT !.docs = SubtractYielded(Top.docs, bitmap)]>>
                     /\ out' = Append(out, [bitmap |-> bitmap, left |-> left_bound])
                     /\ sortPc' = "idle"
                ELSE \* push the frame of the level below, continue 'outer
                     /\ stack' = Below \o
                            <<[read EXCEPT !.docs = SubtractYielded(Top.docs, bitmap),
                                           !.right = Excluded(left_bound)],
                              [docs |-> bitmap,
                               iter |-> RevRange(
                                   Included(<<e.key[1], level - 1, left_bound>>),
                                   EndKeyBelow(e.key[1], level, Top.right),
                                   ChildTake(e.size)),
                               right |-> Top.right]>>
                     /\ UNCHANGED <<sortPc, out>>
           ELSE \* *right_bound = Bound::Excluded(left_bound)
                /\ stack' = Below \o <<[read EXCEPT !.right = Excluded(left_bound)]>>
                /\ UNCHANGED <<sortPc, out>>
    /\ UNCHANGED <<auxVars, facetVars, distVars, loadVars, pipeVars>>

SortNext == SortCall \/ SortEnd \/ SortPop \/ SortRead

SpecSort == SortInit /\ [][SortNext]_vars

\* The indexes where value v is held by document v and, at most, by the next document too.
LiveIndexes(f) ==
    {idx \in FieldIndexes(f) :
        \A e \in Level0Of(idx, f) :
            e.key[3] \in e.bitmap /\ e.bitmap \subseteq {e.key[3], (e.key[3] + 1) % NumDocs}}

SortLiveInit ==
    /\ db \in {idx \cup fo : idx \in LiveIndexes(TargetField), fo \in {{}, ForeignEntries}}
    /\ candidates \in SUBSET Docs
    /\ readError = FALSE
    /\ stack = InitialStack(db, TargetField, candidates)
    /\ sortPc = "idle"
    /\ out = <<>>
    /\ DistParked
    /\ LoadParked
    /\ PipeParked
    /\ AuxParked

\* The iterator under a consumer that keeps pulling and a thread that keeps running.
SpecSortLive == SortLiveInit /\ [][SortNext]_vars /\ WF_vars(SortNext)

(***************************************************************************)
(* Properties of the descending facet sort.                                *)
(***************************************************************************)
Yielded == UNION {out[i].bitmap : i \in 1..Len(out)}

\* The documents that hold at least one value of the field (level 0 is the ground truth).
Indexed(d, f) == UNION {e.bitmap : e \in Level0Of(d, f)}

\* The level-0 bitmap of value v, empty when the field does not hold v.
BitmapOf(d, f, v) == UNION {e.bitmap : e \in {x \in Level0Of(d, f) : x.key[3] = v}}

ValuesOf(d, f, doc) == {e.key[3] : e \in {x \in Level0Of(d, f) : doc \in x.bitmap}}

\* C1, as stated: once the iterator has returned None, the union of the bitmaps it
\* yielded equals the candidate set.
C1_UnionIsCandidates == sortPc = "done" => Yielded = candidates

\* C1, amended: once the iterator has returned None, the union of the bitmaps it
\* yielded equals the candidates that hold a value of the field, that is, the
\* candidate set intersected with the union of the field's level-0 bitmaps.
C1_UnionIsIndexedCandidates ==
    sortPc = "done" => Yielded = candidates \cap Indexed(db, TargetField)

\* A drained iteration that descended through two levels, yielded twice and left a
\* candidate that holds no value of the field unemitted.
C1_Witness ==
    /\ sortPc = "done"
    /\ Len(out) >= 2
    /\ get_highest_level(db, TargetField) >= 2
    /\ candidates \ Indexed(db, TargetField) # {}
    /\ Yielded = candidates \cap Indexed(db, TargetField)

\* C2: at every point of the iteration the bitmaps yielded so far are non-empty
\* subsets of the candidate set and pairwise disjoint, and a document is emitted
\* with the greatest of the values it holds.
C2_DisjointNonEmptySubsets ==
    /\ \A i \in 1..Len(out) :
          /\ out[i].bitmap # {}
          /\ out[i].bitmap \subseteq candidates
          /\ \A doc \in out[i].bitmap :
                out[i].left = SetMax(ValuesOf(db, TargetField, doc))
    /\ \A i, j \in 1..Len(out) : i # j => out[i].bitmap \cap out[j].bitmap = {}

\* A drained iteration that emitted a document holding several values of the field.
C2_Witness ==
    /\ sortPc = "done"
    /\ \E i \in 1..Len(out) : \E doc \in out[i].bitmap :
          Cardinality(ValuesOf(db, TargetField, doc)) >= 2
    /\ Len(out) >= 2

\* C3: every yielded bitmap comes from a level-0 entry, and the left bounds of
\* consecutive yielded bitmaps strictly decrease.
C3_StrictlyDescending ==
    /\ \A i \in 1..Len(out) :
          out[i].bitmap \subseteq BitmapOf(db, TargetField, out[i].left)
    /\ \A i \in 1..(Len(out) - 1) : out[i + 1].left < out[i].left

\* Two bitmaps yielded from an index with at least one level above level 0.
C3_Witness ==
    /\ Len(out) >= 2
    /\ get_highest_level(db, TargetField) >= 1
    /\ out[2].left < out[1].left

\* The number of document ids over the bitmaps of a sequence of yielded items.
RECURSIVE CountDocs(_)
CountDocs(seq) ==
    IF seq = <<>> THEN 0
    ELSE Cardinality(seq[1].bitmap) + CountDocs(Tail(seq))

\* C11: once the iterator has returned None, the total number of document ids it
\* yielded equals the number of candidates found by intersecting the candidate set
\* with the level-0 bitmaps of the field directly.
C11_CountIsLevel0Count ==
    sortPc = "done" =>
        CountDocs(out) = Cardinality(candidates \cap Indexed(db, TargetField))

\* A drained iteration over a candidate set that the index covers only in part:
\* one candidate holds no value of the field, and the two others were yielded under
\* different values, one of them held by both.
C11_Witness ==
    /\ sortPc = "done"
    /\ Cardinality(candidates \ Indexed(db, TargetField)) = 1
    /\ CountDocs(out) = 2
    /\ Len(out) = 2
    /\ \E doc \in candidates : Cardinality(ValuesOf(db, TargetField, doc)) >= 2

\* C20: the stack holds at most highest_level + 1 frames, the cursor of the bottom frame
\* scans the highest level and the cursor of each frame above the level just below, and
\* the remaining candidates of the frames are pairwise disjoint.
C20_StackShape ==
    /\ Len(stack) <= get_highest_level(db, TargetField) + 1
    /\ \A i \in 1..Len(stack) :
           stack[i].iter.lower.at[2] = get_highest_level(db, TargetField) - (i - 1)
    /\ \A i, j \in 1..Len(stack) : i # j => stack[i].docs \cap stack[j].docs = {}

\* Three frames, one per level, each with candidates left.
C20_Witness ==
    /\ get_highest_level(db, TargetField) = 2
    /\ Len(stack) = 3
    /\ \A i \in 1..3 : stack[i].docs # {}

\* C17: the iterator terminates: every call to next returns, and after finitely many
\* yielded bitmaps next returns None, the stack being empty.
C17_SortTerminates ==
    /\ (sortPc = "run") ~> (sortPc \in {"idle", "done"})
    /\ <>(sortPc = "done" /\ stack = <<>>)

\* next has returned None after two bitmaps found under a level-1 entry.
C17_Witness ==
    /\ sortPc = "done"
    /\ stack = <<>>
    /\ Len(out) >= 2
    /\ get_highest_level(db, TargetField) >= 1

(***************************************************************************)
(* Facet distribution.                                                     *)
(***************************************************************************)
\* range(&(starting_key..)).take(n): a forward cursor, unbounded on the right.
Range(lb, ub, n) == [lower |-> lb, upper |-> ub, left |-> n]

\* The next item of a forward cursor: the least entry left in the range, if any.
RangeNext(d, it) ==
    LET S == InRange(d, it.lower, it.upper)
    IN  IF it.left = 0 \/ S = {} THEN [some |-> FALSE, entry |-> NoVal, iter |-> it]
        ELSE LET e == MinEntry(S)
             IN  [some |-> TRUE, entry |-> e,
                  iter |-> [it EXCEPT !.lower = Excluded(e.key), !.left = @ - 1]]

BitmapLen(bitmap, cands) == Cardinality(bitmap)
\* value.bitmap.intersection_len(candidates)
intersection_len(bitmap, cands) == Cardinality(bitmap \cap cands)

ReportAlways(docids_in_common) == TRUE
\* if docids_in_common > 0
ShouldReport(docids_in_common) == docids_in_common > 0

DocidZero(bitmap) == 0
\* value.bitmap.iter().next().unwrap(): the least document id of the value's bitmap.
any_docid(bitmap) == SetMin(bitmap)

NeverForeign(key, field_id) == FALSE
\* if key.field_id != self.field_id
IsForeign(key, field_id) == key[1] # field_id

\* The callback of the caller: Break on invocation number stopAt, Continue otherwise.
CallbackBreaks(n) == stopAt # 0 /\ n = stopAt

ResumeParent(frames) == SubSeq(frames, 1, Len(frames) - 1)
\* ControlFlow::Break(_) => return Ok(ControlFlow::Break(())) in every activation:
\* none is left.
BreakUnwind(frames) == <<>>

DTop == dstack[Len(dstack)]
DBelow == SubSeq(dstack, 1, Len(dstack) - 1)

DistInit ==
    /\ FacetInit
    /\ dstack = <<>>
    /\ distPc = "start"
    /\ calls = <<>>
    /\ stopAt \in 0..MaxStop
    /\ reads = 0
    /\ stopped = FALSE
    /\ seen = <<>>
    /\ SortParked
    /\ LoadParked
    /\ PipeParked
    /\ AuxParked

\* iterate_over_facet_distribution, up to its call of fd.iterate.
DistStart ==
    /\ distPc = "start"
    /\ LET highest_level == get_highest_level(db, TargetField)
           first_bound == get_first_facet_value(db, TargetField)
       IN  IF first_bound # NoVal
           THEN /\ dstack' = <<[cands |-> candidates, level |-> highest_level,
                                iter |-> Range(Included(<<TargetField, highest_level,
                                                         first_bound>>),
                                               Unbounded, UsizeMax)]>>
                /\ distPc' = "run"
           ELSE /\ dstack' = <<>>
                /\ distPc' = "done"
    /\ UNCHANGED <<auxVars, facetVars, sortVars, loadVars, pipeVars, calls, stopAt, reads, stopped,
                   seen>>

\* One turn of a for loop of iterate or iterate_level_0: one entry read.
DistRead ==
    /\ distPc = "run"
    /\ dstack # <<>>
    /\ RangeNext(db, DTop.iter).some
    /\ LET r == RangeNext(db, DTop.iter)
           key == r.entry.key
           value == r.entry
           read == [DTop EXCEPT !.iter = r.iter]
       IN  /\ reads' = reads + 1
           /\ seen' = Append(seen, key)
           /\ IF IsForeign(key, TargetField)
              THEN \* return Ok(ControlFlow::Break(()))
                   /\ dstack' = BreakUnwind(dstack)
                   /\ distPc' = "done"
                   /\ UNCHANGED <<calls, stopped>>
              ELSE IF DTop.level = 0
              THEN LET docids_in_common == intersection_len(value.bitmap, DTop.cands)
                   IN  IF ShouldReport(docids_in_common)
                       THEN /\ calls' = Append(calls,
                                   [left |-> key[3], count |-> docids_in_common,
                                    docid |-> any_docid(value.bitmap)])
                            /\ IF CallbackBreaks(Len(calls) + 1)
                               THEN /\ stopped' = TRUE
                                    /\ dstack' = BreakUnwind(dstack)
                                    /\ distPc' = IF BreakUnwind(dstack) = <<>>
                                                 THEN "done" ELSE "run"
                               ELSE /\ dstack' = DBelow \o <<read>>
                                    /\ UNCHANGED <<distPc, stopped>>
                       ELSE /\ dstack' = DBelow \o <<read>>
                            /\ UNCHANGED <<calls, distPc, stopped>>
              ELSE LET docids_in_common == value.bitmap \cap DTop.cands
                   IN  IF Cardinality(docids_in_common) > 0
                       THEN \* self.iterate(&docids_in_common, level - 1, key.left_bound, size)
                            /\ dstack' = DBelow \o
                                   <<read,
                                     [cands |-> docids_in_common, level |-> DTop.level - 1,
                                      iter |-> Range(Included(<<TargetField, DTop.level - 1,
                                                               key[3]>>),
                                                     Unbounded, value.size)]>>
                            /\ UNCHANGED <<calls, distPc, stopped>>
                       ELSE /\ dstack' = DBelow \o <<read>>
                            /\ UNCHANGED <<calls, distPc, stopped>>
    /\ UNCHANGED <<auxVars, facetVars, sortVars, loadVars, pipeVars, stopAt>>

\* A for loop ends: the activation returns Ok(ControlFlow::Continue(())).
DistReturn ==
    /\ distPc = "run"
    /\ dstack # <<>>
    /\ ~RangeNext(db, DTop.iter).some
    /\ dstack' = DBelow
    /\ distPc' = IF DBelow = <<>> THEN "done" ELSE "run"
    /\ UNCHANGED <<auxVars, facetVars, sortVars, loadVars, pipeVars, calls, stopAt, reads, stopped,
                   seen>>

DistNext == DistStart \/ DistRead \/ DistReturn

SpecDist == DistInit /\ [][DistNext]_vars

(***************************************************************************)
(* Properties of the facet distribution.                                   *)
(***************************************************************************)
\* What a scan of level 0 reports: each value of the field whose bitmap meets the
\* candidates, with the number of candidates it holds.
Level0Distribution(d, f, cands) ==
    {<<e.key[3], Cardinality(e.bitmap \cap cands)>> :
        e \in {x \in Level0Of(d, f) : x.bitmap \cap cands # {}}}

Reported == {<<calls[i].left, calls[i].count>> : i \in 1..Len(calls)}

\* C4: with a callback that always continues, the traversal invokes the callback for
\* exactly the level-0 values whose bitmap meets the candidate set, once each, with
\* the size of the intersection as the count: the result of scanning level 0.
C4_DistributionIsLevel0Scan ==
    (distPc = "done" /\ stopAt = 0) =>
        /\ Reported = Level0Distribution(db, TargetField, candidates)
        /\ Len(calls) = Cardinality(Level0Distribution(db, TargetField, candidates))

\* A finished traversal of three levels that reported two values, one of them with
\* two documents, and skipped a value that holds no candidate.
C4_Witness ==
    /\ distPc = "done" /\ stopAt = 0
    /\ get_highest_level(db, TargetField) >= 2
    /\ Len(calls) >= 2
    /\ \E i \in 1..Len(calls) : calls[i].count >= 2
    /\ \E e \in Level0Of(db, TargetField) : e.bitmap \cap candidates = {}
    /\ Reported = Level0Distribution(db, TargetField, candidates)

\* C5: the callback is invoked on strictly ascending left bounds (so never twice on
\* the same value), and only on values whose bitmap meets the candidate set.
C5_AscendingNoEmptyValue ==
    /\ \A i \in 1..(Len(calls) - 1) : calls[i].left < calls[i + 1].left
    /\ \A i \in 1..Len(calls) :
          BitmapOf(db, TargetField, calls[i].left) \cap candidates # {}

\* A finished traversal that reported two values and passed over a value, lying
\* between them, that holds no candidate.
C5_Witness ==
    /\ distPc = "done"
    /\ Len(calls) >= 2
    /\ calls[1].left < calls[2].left
    /\ \E e \in Level0Of(db, TargetField) :
          /\ e.bitmap \cap candidates = {}
          /\ calls[1].left < e.key[3] /\ e.key[3] < calls[2].left

\* C6: once the callback has answered Break, on its invocation number stopAt, the
\* traversal has returned with exactly stopAt invocations made, and from then on
\* no entry is read and the callback is not invoked.
C6_StopIsFinal ==
    /\ [](stopped => (distPc = "done" /\ Len(calls) = stopAt))
    /\ [][stopped => (reads' = reads /\ calls' = calls)]_vars

\* The callback answered Break on its second invocation, below the highest level,
\* while a further value holding candidates was still to come.
C6_Witness ==
    /\ stopped /\ distPc = "done"
    /\ stopAt = 2 /\ Len(calls) = 2
    /\ get_highest_level(db, TargetField) >= 1
    /\ Cardinality(Level0Distribution(db, TargetField, candidates)) > 2

\* C19: the traversal never invokes the callback for, nor descends into, an entry of
\* another field: the first key of a foreign field that a scan observes is the last key
\* read, the whole traversal having stopped with Ok, and the callback has been invoked
\* at most once per level-0 key of the target field read.
C19_ForeignFieldStops ==
    /\ \A i \in 1..Len(seen) :
           seen[i][1] # TargetField =>
               i = Len(seen) /\ distPc = "done" /\ dstack = <<>>
    /\ Len(calls) <= Cardinality({i \in 1..Len(seen) :
                                    seen[i][1] = TargetField /\ seen[i][2] = 0})

\* The scan of the highest level ran into the first key of the next field after two
\* callbacks, and the traversal ended there.
C19_Witness ==
    /\ distPc = "done"
    /\ ~stopped
    /\ Len(calls) >= 2
    /\ seen # <<>>
    /\ seen[Len(seen)] = <<2, 0, 0>>
    /\ get_highest_level(db, TargetField) >= 1

\* C18 as stated: the document id passed to the callback for a value is one of the
\* candidates that hold the value.
C18_DocidIsCommon ==
    \A i \in 1..Len(calls) :
        calls[i].docid \in BitmapOf(db, TargetField, calls[i].left) \cap candidates

\* C18: the document id passed to the callback for a value is a document that holds the
\* value, the least of them, whether it is a candidate or not.
C18_DocidHoldsValue ==
    \A i \in 1..Len(calls) :
        /\ calls[i].docid \in BitmapOf(db, TargetField, calls[i].left)
        /\ \A doc \in BitmapOf(db, TargetField, calls[i].left) : calls[i].docid <= doc

\* The callback was given a document that is not a candidate.
C18_Witness ==
    \E i \in 1..Len(calls) :
        /\ calls[i].docid \notin candidates
        /\ calls[i].count >= 1
        /\ calls[i].docid \in BitmapOf(db, TargetField, calls[i].left)

(***************************************************************************)
(* Read errors of the store.  A cursor of the read transaction may answer  *)
(* any of its moves with an error; what the traversal then does depends on *)
(* how the item is taken: `el?` returns the error, `unwrap()` panics.      *)
(***************************************************************************)
\* let (key, value) = el?; in iterate_level_0, el.unwrap() in iterate.
DistItemError(level) == IF level = 0 THEN "err" ELSE "panic"

\* result.unwrap() in DescendingFacetSort::next.
SortItemError == "panic"

\* The cursor of the innermost activation fails to open (range(..)? in iterate_level_0,
\* range(..).unwrap() in iterate) or answers a move with an error.
DistReadFault ==
    /\ distPc = "run"
    /\ dstack # <<>>
    /\ ~readError
    /\ readError' = TRUE
    /\ distPc' = DistItemError(DTop.level)
    /\ dstack' = <<>>
    /\ UNCHANGED <<auxVars, db, candidates, sortVars, loadVars, pipeVars, calls, stopAt, reads,
                   stopped, seen>>

\* deepest_iter.next() answers Some(Err(_)).
SortReadFault ==
    /\ sortPc = "run"
    /\ stack # <<>>
    /\ ~readError
    /\ readError' = TRUE
    /\ sortPc' = SortItemError
    /\ UNCHANGED <<auxVars, db, candidates, distVars, loadVars, pipeVars, stack, out>>

\* rev_range fails to open the cursor of the level below:
\* Err(e) => return Some(Err(e.into())), after the frame was updated.
SortOpenFault ==
    /\ sortPc = "run"
    /\ stack # <<>>
    /\ ~readError
    /\ RevIterNext(db, Top.iter).some
    /\ LET r == RevIterNext(db, Top.iter)
           e == r.entry
           bitmap == RestrictToDocs(e.bitmap, Top.docs)
       IN  /\ e.key[1] = TargetField
           /\ bitmap # {}
           /\ e.key[2] # 0
           /\ stack' = Below \o
                  <<[Top EXCEPT !.iter = r.iter,
                                !.docs = SubtractYielded(Top.docs, bitmap),
                                !.right = Excluded(e.key[3])]>>
    /\ readError' = TRUE
    /\ sortPc' = "err"
    /\ UNCHANGED <<auxVars, db, candidates, distVars, loadVars, pipeVars, out>>

\* iterate_over_facet_distribution: get_highest_level(..)? or get_first_facet_value(..)?
\* answers with an error, which `?` returns before any scan is opened.
DistStartFault ==
    /\ distPc = "start"
    /\ ~readError
    /\ readError' = TRUE
    /\ distPc' = "err"
    /\ UNCHANGED <<auxVars, db, candidates, sortVars, loadVars, pipeVars, dstack, calls, stopAt,
                   reads, stopped, seen>>

\* descending_facet_sort: the reads succeed and the iterator is built.
SortStart ==
    /\ sortPc = "start"
    /\ stack' = InitialStack(db, TargetField, candidates)
    /\ sortPc' = "idle"
    /\ UNCHANGED <<auxVars, facetVars, distVars, loadVars, pipeVars, out>>

\* descending_facet_sort: get_highest_level(..)?, get_first_facet_value(..)?,
\* get_last_facet_value(..)? or rev_range(..)? answers with an error, which `?` returns:
\* no iterator is built.
SortStartFault ==
    /\ sortPc = "start"
    /\ ~readError
    /\ readError' = TRUE
    /\ sortPc' = "err"
    /\ UNCHANGED <<auxVars, db, candidates, distVars, loadVars, pipeVars, stack, out>>

(***************************************************************************)
(* A search request that runs both traversals of the field over the same   *)
(* read transaction: the whole distribution first (the callback always     *)
(* continues), then the descending sort.                                   *)
(***************************************************************************)
RequestInit ==
    /\ FacetInit
    /\ stack = <<>>
    /\ sortPc = "start"
    /\ out = <<>>
    /\ dstack = <<>>
    /\ distPc = "start"
    /\ calls = <<>>
    /\ stopAt = 0
    /\ reads = 0
    /\ stopped = FALSE
    /\ seen = <<>>
    /\ LoadParked
    /\ PipeParked
    /\ AuxParked

RequestNext ==
    \/ DistNext
    \/ DistStartFault
    \/ DistReadFault
    \/ distPc = "done" /\ SortStart
    \/ distPc = "done" /\ SortStartFault
    \/ distPc = "done" /\ SortNext
    \/ distPc = "done" /\ SortReadFault
    \/ distPc = "done" /\ SortOpenFault

SpecRequest == RequestInit /\ [][RequestNext]_vars

\* C12: when the target field has no indexed value, whatever the candidate set and
\* whatever the other fields hold, the distribution never invokes the callback (it
\* starts no scan and reads no entry), and the descending sort yields nothing (its
\* stack is empty from the start to the end).
C12_EmptyFieldShortCircuits ==
    FieldEntries(db, TargetField) = {} =>
        /\ calls = <<>> /\ reads = 0 /\ dstack = <<>>
        /\ out = <<>> /\ stack = <<>>

\* Both traversals have returned on a store whose only entries belong to other
\* fields, with a non-empty candidate set.
C12_Witness ==
    /\ FieldEntries(db, TargetField) = {}
    /\ db # {}
    /\ candidates # {}
    /\ distPc = "done" /\ sortPc = "done"
    /\ calls = <<>> /\ out = <<>>

\* C14, as stated: once the store has answered a read of a traversal with an error,
\* the traversal has returned that error to its caller as an error value.
C14_ReadErrorIsReturned ==
    readError => (distPc = "err" \/ sortPc = "err")

(***************************************************************************)
(* The store writer: write_into_lmdb_database and                          *)
(* merger_iter_into_lmdb_database.                                         *)
(***************************************************************************)
\* The keys of the model, byte strings: <<1>> is a proper prefix of <<1, 1>>.
Keys == {<<1>>, <<1, 1>>, <<2>>}

Bits == 0..(NumBits - 1)
BitmapValue(b) == [valid |-> TRUE, bits |-> b]
\* A value that is not the encoding of a bitmap.
Bad == [valid |-> FALSE, bits |-> {}]
Bitmaps == {BitmapValue(b) : b \in SUBSET Bits}
Values == Bitmaps \cup {Bad}

\* A database content: a function from the keys present to their values.
Stores == UNION {[D -> Values] : D \in SUBSET Keys}
NoKey == <<>>

\* Byte-lexicographic order on keys, the order of LMDB and of a grenad stream.
RECURSIVE BytesLess(_, _)
BytesLess(a, b) ==
    IF a = <<>> THEN b # <<>>
    ELSE IF b = <<>> THEN FALSE
    ELSE IF a[1] # b[1] THEN a[1] < b[1]
    ELSE BytesLess(Tail(a), Tail(b))

IsPrefix(p, k) == Len(p) <= Len(k) /\ SubSeq(k, 1, Len(p)) = p

\* The records of a sorted stream with unique keys over the keys K, in key order.
RECURSIVE StreamOf(_)
StreamOf(m) ==
    IF DOMAIN m = {} THEN <<>>
    ELSE LET k == CHOOSE x \in DOMAIN m : \A y \in DOMAIN m : x = y \/ BytesLess(x, y)
         IN  <<[key |-> k, val |-> m[k]]>> \o
             StreamOf([x \in DOMAIN m \ {k} |-> m[x]])

SortedStreams == {StreamOf(m) : m \in Stores}

\* The merge functions: the last value wins, or the union of the bitmaps, which
\* fails on a value that is not a bitmap.
Merge(kind, key, vals) ==
    IF kind = "keep_last" THEN [ok |-> TRUE, val |-> vals[Len(vals)]]
    ELSE IF \E i \in 1..Len(vals) : ~vals[i].valid THEN [ok |-> FALSE, val |-> Bad]
    ELSE [ok |-> TRUE,
          val |-> BitmapValue(UNION {vals[i].bits : i \in 1..Len(vals)})]

\* database.prefix_iter_mut(wtxn, k), then iter.next(): the least key of the
\* database that starts with k, NoKey when there is none.
PrefixIterFirst(s, k) ==
    LET S == {x \in DOMAIN s : IsPrefix(k, x)}
    IN  IF S = {} THEN NoKey
        ELSE CHOOSE x \in S : \A y \in S : x = y \/ BytesLess(x, y)

\* Some((key, old_val)) if key == k
ExactMatch(key, k) == key = k

NewFirst(old_val, v) == <<v, old_val>>
\* &[Cow::Borrowed(old_val), Cow::Borrowed(v)]
MergeArgs(old_val, v) == <<old_val, v>>

del_current(s, at, val) == [x \in DOMAIN s \ {at} |-> s[x]]
\* iter.put_current(k, &val): the entry under the cursor, which is at key `at`.
put_current(s, at, val) == [s EXCEPT ![at] = val]

\* database.put(wtxn, k, v)
put(s, k, v) == [x \in DOMAIN s \cup {k} |-> IF x = k THEN v ELSE s[x]]

\* The body of the while loop for the record (k, v): what the write transaction
\* holds after it, or the merge error.
WriteOne(s, k, v, kind, w) ==
    LET first == PrefixIterFirst(s, k)
    IN  IF first # NoKey /\ ExactMatch(first, k)
        THEN LET val == Merge(kind, k, MergeArgs(s[first], v))
             IN  IF val.ok
                 THEN [ok |-> TRUE, txn |-> put_current(s, first, val.val), err |-> "none"]
                 ELSE [ok |-> FALSE, txn |-> s,
                       err |-> IF w = "merger_iter" THEN "IndexingMergingKeys"
                               ELSE "merge"]
        ELSE [ok |-> TRUE, txn |-> put(s, k, v), err |-> "none"]

WriteThrough(committed, written) == written
\* The writers write through wtxn only: what is committed stays as it was.
CommittedAfterWrite(committed, written) == committed

LoadInit ==
    /\ store0 \in Stores
    /\ store = store0
    /\ wtxn = store0
    /\ txn = "open"
    /\ stream \in SortedStreams
    /\ pos = 1
    /\ loadPc = "load"
    /\ loadErr = "none"
    /\ mergeKind \in {"keep_last", "union"}
    /\ writer \in {"reader", "merger_iter"}
    /\ loads = 1
    /\ after1 = <<>>
    /\ FacetParked /\ SortParked /\ DistParked /\ PipeParked /\ AuxParked

\* One turn of the while loop: the next record is merged into, or inserted in, the
\* database.
WriteRecord ==
    /\ loadPc = "load"
    /\ pos <= Len(stream)
    /\ LET r == WriteOne(wtxn, stream[pos].key, stream[pos].val, mergeKind, writer)
       IN  IF r.ok
           THEN /\ wtxn' = r.txn
                /\ store' = CommittedAfterWrite(store, r.txn)
                /\ pos' = pos + 1
                /\ UNCHANGED <<loadPc, loadErr>>
           ELSE /\ loadPc' = "err"
                /\ loadErr' = r.err
                /\ UNCHANGED <<wtxn, store, pos>>
    /\ UNCHANGED <<auxVars, facetVars, sortVars, distVars, pipeVars, store0, txn, stream, mergeKind, writer,
                   loads, after1>>

\* A read or a write of the database or of the stream fails: the writer returns
\* the error at once.
WriteFault ==
    /\ loadPc = "load"
    /\ loadPc' = "err"
    /\ loadErr' = "storage"
    /\ UNCHANGED <<auxVars, facetVars, sortVars, distVars, pipeVars, store, store0, wtxn, txn, stream, pos,
                   mergeKind, writer, loads, after1>>

\* The stream is exhausted: the writer returns Ok(()).
WriteDone ==
    /\ loadPc = "load"
    /\ pos > Len(stream)
    /\ loadPc' = "ok"
    /\ after1' = IF loads = 1 THEN wtxn ELSE after1
    /\ UNCHANGED <<auxVars, facetVars, sortVars, distVars, pipeVars, store, store0, wtxn, txn, stream, pos,
                   loadErr, mergeKind, writer, loads>>

\* The same stream is handed to the writer a second time, in the same transaction.
LoadAgain ==
    /\ loadPc = "ok"
    /\ txn = "open"
    /\ loads = 1
    /\ loads' = 2
    /\ pos' = 1
    /\ loadPc' = "load"
    /\ UNCHANGED <<auxVars, facetVars, sortVars, distVars, pipeVars, store, store0, wtxn, txn, stream,
                   loadErr, mergeKind, writer, after1>>

\* The caller commits the write transaction of a load that returned Ok.
TxnCommit ==
    /\ loadPc = "ok"
    /\ txn = "open"
    /\ txn' = "committed"
    /\ store' = wtxn
    /\ UNCHANGED <<auxVars, facetVars, sortVars, distVars, pipeVars, store0, wtxn, stream, pos, loadPc,
                   loadErr, mergeKind, writer, loads, after1>>

\* The caller aborts the write transaction of a load that returned an error.
TxnAbort ==
    /\ loadPc = "err"
    /\ txn = "open"
    /\ txn' = "aborted"
    /\ wtxn' = store
    /\ UNCHANGED <<auxVars, facetVars, sortVars, distVars, pipeVars, store, store0, stream, pos, loadPc,
                   loadErr, mergeKind, writer, loads, after1>>

LoadNext == WriteRecord \/ WriteFault \/ WriteDone \/ LoadAgain \/ TxnCommit \/ TxnAbort

SpecLoad == LoadInit /\ [][LoadNext]_vars

(***************************************************************************)
(* Properties of the store writer.                                         *)
(***************************************************************************)
StreamKeys(strm) == {strm[i].key : i \in 1..Len(strm)}
Incoming(strm, k) == (CHOOSE i \in 1..Len(strm) : strm[i].key = k)

\* What a load of strm is to leave in a database that held s0: the merge of the
\* existing and the incoming value, in this order, under a key of both; the
\* incoming value under a new key; the previous value under any other key.
ExpectedStore(s0, strm, kind) ==
    [k \in DOMAIN s0 \cup StreamKeys(strm) |->
        IF k \in StreamKeys(strm)
        THEN IF k \in DOMAIN s0
             THEN Merge(kind, k, <<s0[k], strm[Incoming(strm, k)].val>>).val
             ELSE strm[Incoming(strm, k)].val
        ELSE s0[k]]

\* C7: when a writer has returned Ok for a stream with unique keys, every incoming
\* key that existed holds merge(k, [old, incoming]), every incoming key that did
\* not exist holds the incoming value, and every other key holds what it held.
C7_StoreAfterLoad ==
    (loadPc = "ok" /\ loads = 1) =>
        /\ DOMAIN wtxn = DOMAIN store0 \cup StreamKeys(stream)
        /\ \A k \in DOMAIN wtxn : wtxn[k] = ExpectedStore(store0, stream, mergeKind)[k]

\* A load that returned Ok after it merged into an existing key a value other than
\* the one stored, inserted a new key that is a prefix of an existing one, and left
\* a key alone.
C7_Witness ==
    /\ loadPc = "ok" /\ loads = 1
    /\ \E k \in StreamKeys(stream) \cap DOMAIN store0 :
          /\ store0[k] # stream[Incoming(stream, k)].val
          /\ wtxn[k] # stream[Incoming(stream, k)].val
    /\ \E k \in StreamKeys(stream) \ DOMAIN store0 :
          \E x \in DOMAIN store0 : IsPrefix(k, x)
    /\ DOMAIN store0 \ StreamKeys(stream) # {}

\* C8: a load is all or nothing.  What readers see is at any time either the
\* content before the load or, once the transaction is committed, the content of
\* the whole input applied; after the abort of a failed load it is the content
\* before the load.
C8_AllOrNothing ==
    /\ \/ store = store0
       \/ txn = "committed" /\ store = ExpectedStore(store0, stream, mergeKind)
    /\ loadPc = "err" => txn # "committed"
    /\ txn = "aborted" => (store = store0 /\ wtxn = store0)

\* A load that failed on a merge error at its second or third record, after the
\* records before it had changed the content of the transaction, and was aborted.
C8_Witness ==
    /\ txn = "aborted"
    /\ loadErr \in {"merge", "IndexingMergingKeys"}
    /\ loads = 1 /\ pos >= 2 /\ pos <= Len(stream)
    /\ ExpectedStore(store0, SubSeq(stream, 1, pos - 1), mergeKind) # store0
    /\ store = store0

\* C9: when the same sorted input has been loaded a second time, with the last
\* value winning or with the union of bitmaps as the merge function, the database
\* holds what it held after the first load.
C9_SecondLoadChangesNothing ==
    (loadPc = "ok" /\ loads = 2) => wtxn = after1

\* A second load of two records or more, one of them under an existing key, after
\* a first load that changed the database.
C9_Witness ==
    /\ loadPc = "ok" /\ loads = 2
    /\ Len(stream) >= 2
    /\ StreamKeys(stream) \cap DOMAIN store0 # {}
    /\ after1 # store0
    /\ wtxn = after1

(***************************************************************************)
(* The bulk-load pipeline: create_sorter, insertions in the grenad sorter, *)
(* sorter_into_lmdb_database.  The memory of a pair is one unit.           *)
(***************************************************************************)
\* The defaults of grenad's sorter builder.
DefaultNbChunks == 25
DefaultDumpThreshold == 1073741824

\* create_sorter: the thresholds of the sorter it builds (NoVal stands for None).
create_sorter(max_nb_chunks, max_memory) ==
    [max_nb_chunks |-> IF max_nb_chunks # NoVal THEN max_nb_chunks ELSE DefaultNbChunks,
     dump_threshold |-> IF max_memory # NoVal THEN max_memory ELSE DefaultDumpThreshold,
     allow_realloc |-> max_memory = NoVal]

\* The values of key k in a sequence of records, in the order of the sequence.
RECURSIVE ValuesUnder(_, _)
ValuesUnder(recs, k) ==
    IF recs = <<>> THEN <<>>
    ELSE (IF recs[1].key = k THEN <<recs[1].val>> ELSE <<>>) \o ValuesUnder(Tail(recs), k)

\* The keys ks in byte order, each with its values merged when it has several.
RECURSIVE CoalesceKeys(_, _, _)
CoalesceKeys(recs, ks, kind) ==
    IF ks = {} THEN <<>>
    ELSE LET k == CHOOSE x \in ks : \A y \in ks : x = y \/ BytesLess(x, y)
             vals == ValuesUnder(recs, k)
         IN  <<[key |-> k,
                val |-> IF Len(vals) = 1 THEN vals[1] ELSE Merge(kind, k, vals).val]>>
             \o CoalesceKeys(recs, ks \ {k}, kind)

\* Sorter::write_chunk: the buffer sorted by key (stably), pairs of one key merged.
write_chunk(buffer, kind) == CoalesceKeys(buffer, StreamKeys(buffer), kind)

RECURSIVE Concat(_)
Concat(cs) == IF cs = <<>> THEN <<>> ELSE cs[1] \o Concat(Tail(cs))

RECURSIVE Reversed(_)
Reversed(cs) == IF cs = <<>> THEN <<>> ELSE Reversed(Tail(cs)) \o <<cs[1]>>

NewestFirstMerge(cs, kind) ==
    CoalesceKeys(Concat(Reversed(cs)), StreamKeys(Concat(cs)), kind)
\* The k-way merge of chunks: one sorted stream, the values of a key that occurs in
\* several chunks merged in the order of the chunks.
kway_merge(cs, kind) == CoalesceKeys(Concat(cs), StreamKeys(Concat(cs)), kind)

\* Sorter::insert: whether the pair goes to the buffer without a flush.
Fits(buffer, cfg) == Len(buffer) + 1 <= cfg.dump_threshold
ThresholdExceeded(buffer, cfg) == Len(buffer) >= cfg.dump_threshold

PairRecords == {[key |-> k, val |-> v] : k \in Keys, v \in Bitmaps}
PairSeqs == UNION {[1..n -> PairRecords] : n \in 0..MaxPairs}
Thresholds == {NoVal} \cup (1..MaxPairs)
\* What the database holds before a bulk load: nothing, or one bitmap under every key.
PipeStores == {<<>>} \cup {[k \in Keys |-> v] : v \in Bitmaps}

PipeInit ==
    /\ pairs \in PairSeqs
    /\ fed = 0
    /\ entries = <<>>
    /\ chunks = <<>>
    /\ \E max_nb_chunks \in Thresholds, max_memory \in Thresholds :
          sorter = create_sorter(max_nb_chunks, max_memory)
    /\ spills = 0
    /\ store0 \in PipeStores
    /\ store = store0
    /\ wtxn = store0
    /\ txn = "open"
    /\ stream = <<>>
    /\ pos = 1
    /\ loadPc = "sorter"
    /\ loadErr = "none"
    /\ mergeKind \in {"keep_last", "union"}
    /\ writer = "merger_iter"
    /\ loads = 1
    /\ after1 = <<>>
    /\ FacetParked /\ SortParked /\ DistParked /\ AuxParked

\* sorter.insert(key, val) of the next pair.
SorterInsert ==
    /\ loadPc = "sorter"
    /\ fed < Len(pairs)
    /\ fed' = fed + 1
    /\ IF Fits(entries, sorter) \/ (~ThresholdExceeded(entries, sorter) /\ sorter.allow_realloc)
       THEN /\ entries' = Append(entries, pairs[fed + 1])
            /\ UNCHANGED <<chunks, spills>>
       ELSE LET flushed == Append(chunks, write_chunk(entries, mergeKind))
            IN  /\ entries' = <<pairs[fed + 1]>>
                /\ spills' = spills + 1
                /\ chunks' = IF Len(flushed) >= sorter.max_nb_chunks
                             THEN <<kway_merge(flushed, mergeKind)>>
                             ELSE flushed
    /\ UNCHANGED <<auxVars, facetVars, sortVars, distVars, loadVars, pairs, sorter>>

\* sorter_into_lmdb_database: sorter.into_stream_merger_iter() flushes the buffer
\* and merges the chunks; the stream goes to merger_iter_into_lmdb_database.
SorterIntoStream ==
    /\ loadPc = "sorter"
    /\ fed = Len(pairs)
    /\ chunks' = Append(chunks, write_chunk(entries, mergeKind))
    /\ entries' = <<>>
    /\ stream' = kway_merge(chunks', mergeKind)
    /\ pos' = 1
    /\ loadPc' = "load"
    /\ UNCHANGED <<auxVars, facetVars, sortVars, distVars, store, store0, wtxn, txn, loadErr,
                   mergeKind, writer, loads, after1, pairs, fed, sorter, spills>>

PipeNext == SorterInsert \/ SorterIntoStream \/ WriteRecord \/ WriteDone \/ TxnCommit

SpecPipe == PipeInit /\ [][PipeNext]_vars

(***************************************************************************)
(* Properties of the bulk-load pipeline.                                   *)
(***************************************************************************)
StrictlySorted(strm) ==
    \A i \in 1..(Len(strm) - 1) : BytesLess(strm[i].key, strm[i + 1].key)

\* The stream of a sorter that never spills: the whole input flushed as one chunk.
UnspilledStream(ps, kind) == write_chunk(ps, kind)

\* C10: whatever max_memory and max_nb_chunks are, the stream handed to the store
\* writer is sorted, duplicate-free and the one of a sorter that never spills, and
\* the content committed is the content such a sorter commits.
C10_SpillTransparent ==
    /\ loadPc \in {"load", "ok"} =>
          /\ StrictlySorted(stream)
          /\ stream = UnspilledStream(pairs, mergeKind)
    /\ txn = "committed" =>
          store = ExpectedStore(store0, UnspilledStream(pairs, mergeKind), mergeKind)

\* A committed load whose sorter flushed twice and merged its chunks, on an input
\* with one key inserted with different values before and after a flush, the last
\* value winning.
C10_Witness ==
    /\ txn = "committed"
    /\ spills >= 2
    /\ sorter.max_nb_chunks = 2
    /\ mergeKind = "keep_last"
    /\ Len(pairs) = 3
    /\ pairs[1].key = pairs[3].key /\ pairs[1].val # pairs[3].val
    /\ store # store0

(***************************************************************************)
(* grenad_obkv_into_chunks: the iterator that splits a reader of obkv      *)
(* documents into chunks of about documents_chunk_size bytes.              *)
(***************************************************************************)
\* The key of a record: the document id, a big-endian u32.
DocumentIdBytes(i) == <<0, 0, 0, i>>

\* An obkv of n bytes.
ObkvBytes(i, n) == [j \in 1..n |-> i]

\* The readers: records keyed by an incremental document id, in key order.
RECURSIVE ReadersOfLen(_)
ReadersOfLen(n) ==
    IF n = 0 THEN {<<>>}
    ELSE {Append(r, [document_id |-> DocumentIdBytes(n), obkv |-> ObkvBytes(n, len)]) :
            r \in ReadersOfLen(n - 1), len \in 0..MaxObkvLen}

Readers == UNION {ReadersOfLen(n) : n \in 0..MaxRecords}

\* The while loop of the closure from cursor position pos with current_chunk_size
\* size: where the cursor stands when the loop is left, and whether it was left by
\* the return inside it (the chunk reached the threshold).
RECURSIVE FillChunk(_, _, _, _)
FillChunk(rd, at, size, limit) ==
    IF at = Len(rd) THEN [at |-> at, full |-> FALSE]
    ELSE LET current_chunk_size ==
                 size + Len(rd[at + 1].document_id) + Len(rd[at + 1].obkv)
         IN  IF current_chunk_size >= limit
             THEN [at |-> at + 1, full |-> TRUE]
             ELSE FillChunk(rd, at + 1, current_chunk_size, limit)

InsertedButLast(rd, from, to) == SubSeq(rd, from + 1, to - 1)
\* obkv_documents.insert(document_id, obkv)? for every record the cursor moved over.
Inserted(rd, from, to) == SubSeq(rd, from + 1, to)

ChunkInit ==
    /\ obkv_reader \in Readers
    /\ documents_chunk_size \in 0..MaxChunkSize
    /\ cursor = 0
    /\ continue_reading = TRUE
    /\ emitted = <<>>
    /\ lastItem = "start"
    /\ FmtParked /\ FlatParked
    /\ FacetParked /\ SortParked /\ DistParked /\ LoadParked /\ PipeParked

\* One call of next on the returned iterator that finds continue_reading set.
ChunkNextSome ==
    /\ continue_reading
    /\ LET r == FillChunk(obkv_reader, cursor, 0, documents_chunk_size)
       IN  /\ emitted' = Append(emitted, Inserted(obkv_reader, cursor, r.at))
           /\ cursor' = r.at
           /\ continue_reading' = r.full
    /\ lastItem' = "Some"
    /\ UNCHANGED <<facetVars, sortVars, distVars, loadVars, pipeVars, fmtVars, flatVars,
                   obkv_reader, documents_chunk_size>>

\* if !continue_reading { return Ok(None); }
ChunkNextNone ==
    /\ ~continue_reading
    /\ lastItem' = "None"
    /\ UNCHANGED <<facetVars, sortVars, distVars, loadVars, pipeVars, fmtVars, flatVars,
                   obkv_reader, documents_chunk_size, cursor, continue_reading, emitted>>

ChunkNext == ChunkNextSome \/ ChunkNextNone

SpecChunk == ChunkInit /\ [][ChunkNext]_vars

\* The records of a sequence of chunks, in emission order.
RECURSIVE ChunkRecords(_)
ChunkRecords(cs) == IF cs = <<>> THEN <<>> ELSE cs[1] \o ChunkRecords(Tail(cs))

\* C13: whatever the threshold, the records of the chunks emitted so far, in emission
\* order, are exactly the records the cursor has moved over, in input order, and once
\* the iterator has returned None they are exactly the input.
C13_ChunksConcatToInput ==
    /\ ChunkRecords(emitted) = SubSeq(obkv_reader, 1, cursor)
    /\ lastItem = "None" => ChunkRecords(emitted) = obkv_reader

\* A drained split of three records into two chunks, the first of which holds two.
C13_Witness ==
    /\ lastItem = "None"
    /\ Len(obkv_reader) = 3
    /\ Len(emitted) = 2
    /\ Len(emitted[1]) = 2
    /\ ChunkRecords(emitted) = obkv_reader

\* C22, as stated: for an input of at least one record every chunk emitted holds at
\* least one record, and once the iterator has returned None every later call returns
\* None.
C22_NoEmptyChunkNoneIsFinal ==
    /\ [](obkv_reader # <<>> => \A i \in 1..Len(emitted) : emitted[i] # <<>>)
    /\ [][lastItem = "None" => lastItem' = "None"]_vars

(***************************************************************************)
(* Display for DocumentFormatError::MalformedPayload(Error::Json(se), b):  *)
(* the message of the JSON error is truncated in its middle.  A String is  *)
(* a sequence of UTF-8 bytes.                                              *)
(***************************************************************************)
\* "..."
Ellipsis == <<46, 46, 46>>

\* A printable ASCII byte that tells its index.
AsciiAt(i) == 32 + (i % 95)

\* A message of n bytes: ASCII, but for one two-byte character at bytes wide and
\* wide + 1 when wide # 0.
Message(n, wide) ==
    [i \in 1..n |-> IF wide # 0 /\ i = wide THEN 195
                    ELSE IF wide # 0 /\ i = wide + 1 THEN 169
                    ELSE AsciiAt(i)]

Messages(max) ==
    {Message(p[1], p[2]) : p \in {q \in (0..max) \X (0..max) : q[2] < q[1] \/ q[2] = 0}}

\* str::is_char_boundary(index): index is 0 or the length, or byte index (counted
\* from 0) is not a continuation byte.
is_char_boundary(str, index) ==
    \/ index = 0
    \/ index = Len(str)
    \/ index < Len(str) /\ str[index + 1] \notin 128..191

\* String::replace_range(start..end, with): panics unless both ends are character
\* boundaries and start <= end <= len.
replace_range(str, start, end, with) ==
    IF /\ is_char_boundary(str, start)
       /\ is_char_boundary(str, end)
       /\ start <= end
       /\ end <= Len(str)
    THEN [ok |-> TRUE,
          text |-> SubSeq(str, 1, start) \o with \o SubSeq(str, end + 1, Len(str))]
    ELSE [ok |-> FALSE, text |-> <<>>]

\* if serde_msg.len() > 100 + ellipsis.len() {
\*     serde_msg.replace_range(50..serde_msg.len() - 85, ellipsis);
\* }
TruncateMessage(msg) ==
    IF Len(msg) > 100 + Len(Ellipsis)
    THEN replace_range(msg, 50, Len(msg) - 85, Ellipsis)
    ELSE [ok |-> TRUE, text |-> msg]

FmtInit ==
    /\ serde_msg \in Messages(MaxMsgLen)
    /\ shown = <<>>
    /\ fmtPc = "start"
    /\ ChunkParked /\ FlatParked
    /\ FacetParked /\ SortParked /\ DistParked /\ LoadParked /\ PipeParked

\* Display::fmt of the error: the message is truncated, then written.
DisplayFmt ==
    /\ fmtPc = "start"
    /\ LET r == TruncateMessage(serde_msg)
       IN  /\ fmtPc' = IF r.ok THEN "shown" ELSE "panic"
           /\ shown' = r.text
    /\ UNCHANGED <<facetVars, sortVars, distVars, loadVars, pipeVars, chunkVars, flatVars,
                   serde_msg>>

SpecFmt == FmtInit /\ [][DisplayFmt]_vars

\* C15, as stated: once the error has been displayed, a message longer than 103 bytes
\* is shown as its first 50 bytes, then "...", then its last 85 bytes, and a message
\* of at most 103 bytes is shown unchanged.
C15_TruncatedInTheMiddle ==
    fmtPc # "start" =>
        /\ fmtPc = "shown"
        /\ shown = IF Len(serde_msg) > 103
                   THEN SubSeq(serde_msg, 1, 50) \o Ellipsis \o
                        SubSeq(serde_msg, Len(serde_msg) - 84, Len(serde_msg))
                   ELSE serde_msg

\* C21, as stated: displaying the error never faults, and for every message longer
\* than 103 bytes the range replaced by the ellipsis, from byte 50 to byte
\* length - 85, is well formed.
C21_DisplayNeverFaults ==
    fmtPc # "start" =>
        /\ fmtPc # "panic"
        /\ Len(serde_msg) > 103 =>
               50 <= Len(serde_msg) - 85 /\ Len(serde_msg) - 85 <= Len(serde_msg)

(***************************************************************************)
(* flatten-serde-json.  A serde_json::Value is a record [kind, of]: a      *)
(* scalar holds its value, an array its items, an object its fields        *)
(* [key, value] in the order the Map iterates them.  A key is a string, a  *)
(* sequence of characters.                                                 *)
(***************************************************************************)
Scalar(x) == [kind |-> "scalar", of |-> <<x>>]
Array(items) == [kind |-> "array", of |-> items]
Object(fields) == [kind |-> "object", of |-> fields]

Scalars == {Scalar(x) : x \in 1..NumScalars}

\* The keys of the input objects: "a" and the literal dotted key "a.a".
JsonKeys == {<<"a">>, <<"a", ".", "a">>}

\* The sequences of n distinct keys: a Map holds each key once, in the order it iterates.
KeySeqs(n) ==
    {ks \in [1..n -> JsonKeys] : \A i, j \in 1..n : i # j => ks[i] # ks[j]}

\* Arrays and objects hold at most as many values as there are keys.
MaxWidth == Cardinality(JsonKeys)

\* The objects of n fields whose values are in S, and the arrays of n items of S.
ObjectsOfWidth(S, n) ==
    {Object([i \in 1..n |-> [key |-> ks[i], value |-> vs[i]]]) :
        ks \in KeySeqs(n), vs \in [1..n -> S]}
ArraysOfWidth(S, n) == {Array(vs) : vs \in [1..n -> S]}

\* The values found inside arrays: scalars, one-item arrays, one-field objects.
Items ==
    Scalars
    \cup {Array(<<s>>) : s \in Scalars}
    \cup {Object(<<[key |-> <<"a">>, value |-> s]>>) : s \in Scalars}

\* The values of the fields of a document: scalars, arrays and objects over Items.
FieldValues ==
    Scalars \cup UNION {ArraysOfWidth(Items, n) \cup ObjectsOfWidth(Items, n) : n \in 0..MaxWidth}

\* The documents of n fields handed to flatten.
JsonObjects(n) == ObjectsOfWidth(FieldValues, n)

\* Option<&str>
NoBaseKey == [some |-> FALSE, key |-> <<>>]
SomeKey(k) == [some |-> TRUE, key |-> k]

can_be_flattened(object) ==
    \E i \in 1..Len(object.of) :
        LET value == object.of[i].value
        IN  \/ value.kind = "object"
            \/ /\ value.kind = "array"
               /\ \E j \in 1..Len(value.of) : value.of[j].kind \in {"object", "array"}

\* format!("{base_key}.{key}")
DottedKey(base_key, key) ==
    IF base_key.some THEN base_key.key \o <<".">> \o key ELSE key

KeepNew(value, to_insert) == to_insert
\* base_json[key] = Value::Array(vec![value, to_insert])
Collide(value, to_insert) == Array(<<value, to_insert>>)

\* A Map is a function from the keys it holds to their values.
insert_value(base_json, key, to_insert) ==
    IF key \in DOMAIN base_json
    THEN IF base_json[key].kind = "array"
         THEN [base_json EXCEPT ![key] = Array(Append(@.of, to_insert))]
         ELSE [base_json EXCEPT ![key] = Collide(@, to_insert)]
    ELSE [k \in DOMAIN base_json \cup {key} |->
             IF k = key THEN to_insert ELSE base_json[k]]

\* insert_object and insert_array, as loops over what is left of the fields / items.
RECURSIVE insert_object(_, _, _), insert_array(_, _, _)
insert_object(base_json, base_key, fields) ==
    IF fields = <<>> THEN base_json
    ELSE LET key == fields[1].key
             value == fields[1].value
             new_key == DottedKey(base_key, key)
             next ==
                 IF value.kind = "array" THEN insert_array(base_json, new_key, value.of)
                 ELSE IF value.kind = "object"
                 THEN insert_object(base_json, SomeKey(new_key), value.of)
                 ELSE insert_value(base_json, new_key, value)
         IN  insert_object(next, base_key, Tail(fields))

insert_array(base_json, base_key, array) ==
    IF array = <<>> THEN base_json
    ELSE LET value == array[1]
             next ==
                 IF value.kind = "object"
                 THEN insert_object(base_json, SomeKey(base_key), value.of)
                 ELSE IF value.kind = "array"
                 THEN insert_array(base_json, base_key, value.of)
                 ELSE insert_value(base_json, base_key, value)
         IN  insert_array(next, base_key, Tail(array))

\* The Map of an object.
MapOf(object) ==
    [k \in {object.of[i].key : i \in 1..Len(object.of)} |->
        (CHOOSE f \in {object.of[i] : i \in 1..Len(object.of)} : f.key = k).value]

flatten(object) ==
    IF can_be_flattened(object)
    THEN insert_object(<<>>, NoBaseKey, object.of)
    ELSE MapOf(object)

FlatInit ==
    /\ \E n \in 0..MaxWidth : json \in JsonObjects(n)
    /\ flattened = <<>>
    /\ flatPc = "start"
    /\ ChunkParked /\ FmtParked
    /\ FacetParked /\ SortParked /\ DistParked /\ LoadParked /\ PipeParked

Flatten ==
    /\ flatPc = "start"
    /\ flattened' = flatten(json)
    /\ flatPc' = "done"
    /\ UNCHANGED <<facetVars, sortVars, distVars, loadVars, pipeVars, chunkVars, fmtVars,
                   json>>

SpecFlat == FlatInit /\ [][Flatten]_vars

\* The paths of a value in encounter order, each with the dotted key it flattens to and
\* the leaf it ends on: a scalar, or an array or object that holds nothing.
RECURSIVE Paths(_, _), PathsFrom(_, _, _)
Paths(key, value) ==
    IF value.kind = "scalar" \/ value.of = <<>>
    THEN <<[key |-> key, value |-> value]>>
    ELSE PathsFrom(key, value, 1)
PathsFrom(key, value, i) ==
    IF i > Len(value.of) THEN <<>>
    ELSE LET child == value.of[i]
         IN  (IF value.kind = "array" THEN Paths(key, child)
              ELSE IF key = <<>> THEN Paths(child.key, child.value)
              ELSE Paths(key \o <<".">> \o child.key, child.value))
             \o PathsFrom(key, value, i + 1)

\* The paths of the document that flatten to key k, and the scalar values they end on.
PathsTo(k) == SelectSeq(Paths(<<>>, json), LAMBDA p : p.key = k)
ScalarsAt(k) ==
    LET ps == SelectSeq(PathsTo(k), LAMBDA p : p.value.kind = "scalar")
    IN  [i \in 1..Len(ps) |-> ps[i].value]
PathKeys == {Paths(<<>>, json)[i].key : i \in 1..Len(Paths(<<>>, json))}

\* C16: when several paths of the document flatten to the same dotted key, the flattened
\* map holds under that key all their scalar values: as one array in encounter order
\* when there is more than one, as the bare scalar when there is exactly one.
C16_CollisionKeepsEveryScalar ==
    flatPc = "done" =>
        \A k \in PathKeys :
            Len(PathsTo(k)) > 1 =>
                /\ Len(ScalarsAt(k)) > 1 =>
                       k \in DOMAIN flattened /\ flattened[k] = Array(ScalarsAt(k))
                /\ Len(ScalarsAt(k)) = 1 =>
                       k \in DOMAIN flattened /\ flattened[k] = ScalarsAt(k)[1]

\* A document where a literal dotted key meets two objects inside an array.
C16_Witness ==
    /\ flatPc = "done"
    /\ Len(json.of) = 2
    /\ json.of[1].key = <<"a">>
    /\ json.of[1].value.kind = "array"
    /\ Len(json.of[1].value.of) = 2
    /\ \A i \in 1..2 : json.of[1].value.of[i].kind = "object"
    /\ json.of[2].key = <<"a", ".", "a">>
    /\ json.of[2].value.kind = "scalar"
    /\ Len(ScalarsAt(<<"a", ".", "a">>)) = 3
    /\ flattened[<<"a", ".", "a">>] = Array(ScalarsAt(<<"a", ".", "a">>))
====
